---- MODULE Spec2Model ----
(***************************************************************************)
(* Model of src/index.js: the chunk generator getSmartCollapsedChunks, the *)
(* collapsing engine (collapseChildren, constructFunctionDefinitionChunk,  *)
(* collapsedReplacement), the token estimator countTokens and the detail   *)
(* extraction that decorates every chunk.                                  *)
(*                                                                         *)
(* Text is a sequence of one-character strings; offsets are 0-based and    *)
(* half-open, as String.prototype.slice takes them.  A syntax tree is a    *)
(* sequence of node records numbered in preorder; the parsing backend is   *)
(* external, so a tree is an input: startPosition.index / endIndex are the *)
(* offsets of the node's text in the file, row and column are derived from *)
(* the file's text.                                                        *)
(***************************************************************************)
EXTENDS Integers, Sequences, FiniteSets, TLC

\* ------------------------------------------------------------- bounds
MaxMembers == 2
MaxBody == 2
MaxBudget == 14
MaxLines == 6

\* ------------------------------------------------------------- state
VARIABLES
  source,         \* the file's text (code)
  tree,           \* its syntax tree, tree[1] the root node
  budget,         \* the budget (maxChunkSize)
  stack,          \* the pending calls of getSmartCollapsedChunks, next first
  chunks,         \* the chunks the running generator has yielded
  origin,         \* for each of them the node it was made of and the branch taken
  visited,        \* the nodes getSmartCollapsedChunks has been called on
  status,         \* "running", "done" (the generator returned) or "threw"
  run,            \* 1 for the first pass over the file, 2 for the second
  firstRun,       \* the chunks and status the first pass ended with
  globalContext,  \* the module-level context object
  pass,           \* how many times the blank-line pass has been applied to source
  once,           \* its result on source
  twice           \* its result on that result

vars == <<source, tree, budget, stack, chunks, origin, visited, status, run,
          firstRun, globalContext, pass, once, twice>>

normVars == <<pass, once, twice>>

input == <<source, tree, budget>>

\* ------------------------------------------------------------- text
NL == "\n"
SP == " "

IsWs(c) == c \in {SP, NL}

Min(a, b) == IF a < b THEN a ELSE b

\* String.prototype.slice(a, b) for 0 <= a, with b clamped to the length
Slice(s, a, b) == SubSeq(s, a + 1, Min(b, Len(s)))

\* String.prototype.slice(a)
SliceFrom(s, a) == SubSeq(s, a + 1, Len(s))

\* String.prototype.trim
Trim(s) ==
  LET idx == {i \in 1..Len(s) : ~IsWs(s[i])}
  IN  IF idx = {} THEN <<>>
      ELSE SubSeq(s, CHOOSE i \in idx : \A j \in idx : i <= j,
                     CHOOSE i \in idx : \A j \in idx : i >= j)

\* text.split(/\s+/).length: one more than the number of maximal whitespace runs
countTokens(text) ==
  1 + Cardinality({i \in 1..Len(text) :
                     IsWs(text[i]) /\ (i = 1 \/ ~IsWs(text[i - 1]))})

\* String.prototype.lastIndexOf(sub): the last 0-based offset of sub, or -1
LastIndexOf(s, sub) ==
  LET hits == {i \in 0..(Len(s) - Len(sub)) : SubSeq(s, i + 1, i + Len(sub)) = sub}
  IN  IF hits = {} THEN -1 ELSE CHOOSE i \in hits : \A j \in hits : i >= j

\* " ".repeat(n)
RECURSIVE Repeat(_, _)
Repeat(s, n) == IF n <= 0 THEN <<>> ELSE s \o Repeat(s, n - 1)

\* code.split("\n")
RECURSIVE SplitLines(_)
SplitLines(s) ==
  LET nls == {i \in 1..Len(s) : s[i] = NL}
  IN  IF nls = {} THEN <<s>>
      ELSE LET k == CHOOSE i \in nls : \A j \in nls : i <= j
           IN  <<SubSeq(s, 1, k - 1)>> \o SplitLines(SubSeq(s, k + 1, Len(s)))

\* lines.join("\n")
RECURSIVE JoinLines(_)
JoinLines(lines) ==
  IF Len(lines) = 0 THEN <<>>
  ELSE IF Len(lines) = 1 THEN lines[1]
  ELSE lines[1] \o <<NL>> \o JoinLines(Tail(lines))

\* ------------------------------------------------------------- syntax tree
\* node.children[k], node.type, ... of the tree `nodes`, a node being its index
NoNode == 0

\* firstChild(node, grammarName) with an array of names; NoNode stands for null
firstChild(nodes, n, grammarName) ==
  LET ch == nodes[n].children
      ks == {k \in 1..Len(ch) : nodes[ch[k]].type \in grammarName}
  IN  IF ks = {} THEN NoNode ELSE ch[CHOOSE k \in ks : \A j \in ks : k <= j]

\* node.childForFieldName(name); NoNode stands for null
childForFieldName(nodes, n, name) ==
  LET ch == nodes[n].children
      ks == {k \in 1..Len(ch) : nodes[ch[k]].field = name}
  IN  IF ks = {} THEN NoNode ELSE ch[CHOOSE k \in ks : \A j \in ks : k <= j]

\* node.text
TextOf(nodes, n, code) == Slice(code, nodes[n].startIndex, nodes[n].endIndex)

\* node.startPosition.row / node.endPosition.row / node.startPosition.column
RowAt(code, idx) == Cardinality({i \in 1..Min(idx, Len(code)) : code[i] = NL})
ColumnAt(code, idx) ==
  LET nls == {i \in 1..Min(idx, Len(code)) : code[i] = NL}
  IN  IF nls = {} THEN idx ELSE idx - (CHOOSE i \in nls : \A j \in nls : i >= j)

\* ------------------------------------------------------------- collapsing engine
BracesPlaceholder == <<"{", SP, ".", ".", ".", SP, "}">>
DotsPlaceholder == <<".", ".", ".">>

\* mutant: "block" gets the braces placeholder too
collapsedReplacementAllBlocks(node) ==
  IF node.type \in {"block", "statement_block", "compound_statement"}
  THEN BracesPlaceholder
  ELSE DotsPlaceholder

collapsedReplacement(node) ==
  IF node.type = "statement_block" \/ node.type = "compound_statement"
  THEN BracesPlaceholder
  ELSE DotsPlaceholder

FUNCTION_BLOCK_NODE_TYPES == {"block", "statement_block", "compound_statement"}
FUNCTION_DECLARATION_NODE_TYPES ==
  {"method_definition", "function_definition", "function_item",
   "function_declaration", "method_declaration"}
CLASS_BLOCK_NODE_TYPES == {"block", "class_body", "declaration_list"}

\* mutant: the pass stops after the first group it splices out
RECURSIVE NormalizeLoopFirstGroupOnly(_, _, _)
NormalizeLoopFirstGroupOnly(lines, i, firstWhiteSpaceInGroup) ==
  IF i < 0 THEN lines
  ELSE IF Trim(lines[i + 1]) = <<>>
  THEN NormalizeLoopFirstGroupOnly(lines, i - 1,
         IF firstWhiteSpaceInGroup < 0 THEN i ELSE firstWhiteSpaceInGroup)
  ELSE IF firstWhiteSpaceInGroup - i > 1
  THEN SubSeq(lines, 1, i + 1) \o SubSeq(lines, firstWhiteSpaceInGroup + 2, Len(lines))
  ELSE NormalizeLoopFirstGroupOnly(lines, i - 1, -1)

\* the blank-line pass of collapseChildren: i and firstWhiteSpaceInGroup are
\* the loop's 0-based line indexes
RECURSIVE NormalizeLoop(_, _, _)
NormalizeLoop(lines, i, firstWhiteSpaceInGroup) ==
  IF i < 0 THEN lines
  ELSE IF Trim(lines[i + 1]) = <<>>
  THEN NormalizeLoop(lines, i - 1,
                     IF firstWhiteSpaceInGroup < 0 THEN i ELSE firstWhiteSpaceInGroup)
  ELSE IF firstWhiteSpaceInGroup - i > 1
  THEN NormalizeLoop(SubSeq(lines, 1, i + 1)
                       \o SubSeq(lines, firstWhiteSpaceInGroup + 2, Len(lines)),
                     i - 1, -1)
  ELSE NormalizeLoop(lines, i - 1, -1)

NormalizeBlankLines(code) ==
  LET lines == SplitLines(code)
  IN  JoinLines(NormalizeLoop(lines, Len(lines) - 1, -1))

\* the loop over childrenToCollapse.reverse(): kids[i] down to kids[1]; st holds
\* the working code and collapsedChildren (unshift keeps it in source order).
\* `members` records, for each entry of collapsedChildren, the member node it
\* came from and its offset in the working code (history, not read by the code).
RECURSIVE CollapseLoop(_, _, _, _)
CollapseLoop(nodes, kids, i, st) ==
  IF i = 0 THEN st
  ELSE
    LET child == kids[i]
        grandChild == firstChild(nodes, child, FUNCTION_BLOCK_NODE_TYPES)
    IN  IF grandChild = NoNode
        THEN CollapseLoop(nodes, kids, i - 1, st)
        ELSE
          LET start == nodes[grandChild].startIndex
              end == nodes[grandChild].endIndex
              collapsedChild ==
                Slice(st.code, nodes[child].startIndex, start)
                  \o collapsedReplacement(nodes[grandChild])
              code2 == Slice(st.code, 0, start)
                         \o collapsedReplacement(nodes[grandChild])
                         \o SliceFrom(st.code, end)
          IN  CollapseLoop(nodes, kids, i - 1,
                [code |-> code2,
                 collapsedChildren |-> <<collapsedChild>> \o st.collapsedChildren,
                 members |-> <<child>> \o st.members])

\* mutant: shift() instead of pop(), the first collapsed child is evicted first
RECURSIVE EvictLoopFromFront(_, _)
EvictLoopFromFront(st, maxChunkSize) ==
  IF countTokens(Trim(st.code)) > maxChunkSize /\ Len(st.collapsedChildren) > 0
  THEN
    LET childCode == st.collapsedChildren[1]
        index == LastIndexOf(st.code, childCode)
        code2 == IF index > 0
                 THEN Slice(st.code, 0, index) \o SliceFrom(st.code, index + Len(childCode))
                 ELSE st.code
    IN  EvictLoopFromFront([code |-> code2,
                            collapsedChildren |-> Tail(st.collapsedChildren),
                            removedChild |-> TRUE,
                            evicted |-> Append(st.evicted,
                                          [unit |-> Len(st.evicted) + 1, index |-> index])],
                           maxChunkSize)
  ELSE st

\* the eviction loop: pop the last collapsed child while the trimmed code
\* counts more than maxChunkSize tokens
RECURSIVE EvictLoop(_, _)
EvictLoop(st, maxChunkSize) ==
  IF countTokens(Trim(st.code)) > maxChunkSize /\ Len(st.collapsedChildren) > 0
  THEN
    LET childCode == st.collapsedChildren[Len(st.collapsedChildren)]
        index == LastIndexOf(st.code, childCode)
        code2 == IF index > 0
                 THEN Slice(st.code, 0, index) \o SliceFrom(st.code, index + Len(childCode))
                 ELSE st.code
    IN  EvictLoop([code |-> code2,
                   collapsedChildren |->
                     SubSeq(st.collapsedChildren, 1, Len(st.collapsedChildren) - 1),
                   removedChild |-> TRUE,
                   evicted |-> Append(st.evicted,
                                 [unit |-> Len(st.collapsedChildren), index |-> index])],
                  maxChunkSize)
  ELSE st

\* collapseChildren(node, code, blockTypes, collapseTypes, collapseBlockTypes,
\* maxChunkSize).  The returned record's `code` is the function's result; the
\* other fields expose the loop's working values.
collapseChildren(nodes, n, code, blockTypes, collapseTypes, maxChunkSize) ==
  LET code1 == Slice(code, 0, nodes[n].endIndex)
      block == firstChild(nodes, n, blockTypes)
      childrenToCollapse ==
        IF block = NoNode THEN <<>>
        ELSE SelectSeq(nodes[block].children, LAMBDA c : nodes[c].type \in collapseTypes)
      collapsed ==
        CollapseLoop(nodes, childrenToCollapse, Len(childrenToCollapse),
                     [code |-> code1, collapsedChildren |-> <<>>, members |-> <<>>])
      code2 == SliceFrom(collapsed.code, nodes[n].startIndex)
      after == EvictLoop([code |-> code2,
                          collapsedChildren |-> collapsed.collapsedChildren,
                          removedChild |-> FALSE,
                          evicted |-> <<>>], maxChunkSize)
  IN  [code |-> IF after.removedChild THEN NormalizeBlankLines(after.code) ELSE after.code,
       threw |-> FALSE,
       collapsedText |-> code2,
       units |-> collapsed.collapsedChildren,
       members |-> collapsed.members,
       evicted |-> after.evicted,
       left |-> Len(after.collapsedChildren),
       stopCode |-> after.code]

constructClassDefinitionChunk(nodes, n, code, maxChunkSize) ==
  collapseChildren(nodes, n, code, CLASS_BLOCK_NODE_TYPES,
                   FUNCTION_DECLARATION_NODE_TYPES, maxChunkSize)

\* constructFunctionDefinitionChunk: bodyNode is the last child whatever its
\* type; with no children bodyNode is undefined and reading
\* bodyNode.startPosition throws a TypeError
constructFunctionDefinitionChunk(nodes, n, code, maxChunkSize) ==
  LET node == nodes[n]
      empty == [code |-> <<>>, threw |-> TRUE, collapsedText |-> <<>>,
                units |-> <<>>, members |-> <<>>, evicted |-> <<>>, left |-> 0,
                stopCode |-> <<>>]
  IN  IF Len(node.children) = 0 THEN empty
      ELSE
        LET bodyNode == node.children[Len(node.children)]
            funcText == Slice(code, node.startIndex, nodes[bodyNode].startIndex)
                          \o collapsedReplacement(nodes[bodyNode])
            nested ==
              /\ node.parent # NoNode
              /\ nodes[node.parent].type \in {"block", "declaration_list"}
              /\ nodes[node.parent].parent # NoNode
              /\ nodes[nodes[node.parent].parent].type \in {"class_definition", "impl_item"}
            text ==
              IF nested
              THEN LET classBlock == node.parent
                       classNode == nodes[node.parent].parent
                   IN  Slice(code, nodes[classNode].startIndex, nodes[classBlock].startIndex)
                         \o <<".", ".", ".", NL, NL>>
                         \o Repeat(<<SP>>, ColumnAt(code, node.startIndex))
                         \o funcText
              ELSE funcText
        IN  [empty EXCEPT !.code = text, !.threw = FALSE, !.collapsedText = text,
                          !.stopCode = text]

CLASS_CONSTRUCTOR_TYPES == {"class_definition", "class_declaration", "impl_item"}
FUNCTION_CONSTRUCTOR_TYPES ==
  {"function_definition", "function_declaration", "function_item", "method_declaration"}

\* the keys of collapsedNodeConstructors, and the call through the table
InCollapsedNodeConstructors(type) ==
  type \in CLASS_CONSTRUCTOR_TYPES \cup FUNCTION_CONSTRUCTOR_TYPES

collapsedNodeConstructors(nodes, n, code, maxChunkSize) ==
  IF nodes[n].type \in CLASS_CONSTRUCTOR_TYPES
  THEN constructClassDefinitionChunk(nodes, n, code, maxChunkSize)
  ELSE constructFunctionDefinitionChunk(nodes, n, code, maxChunkSize)

\* ------------------------------------------------------------- chunks
\* a JavaScript undefined / null text
Undefined == <<"undefined">>

\* { ...a, ...b }: the fields of b override those of a
Spread(a, b) ==
  [k \in (DOMAIN a) \cup (DOMAIN b) |-> IF k \in DOMAIN b THEN b[k] ELSE a[k]]

\* mutant: the test on the node's type is dropped
maybeYieldChunkAnyType(nodes, n, code, maxChunkSize, root) ==
  IF countTokens(TextOf(nodes, n, code)) < maxChunkSize
  THEN [defined |-> TRUE,
        chunk |-> [content |-> TextOf(nodes, n, code),
                   startLine |-> RowAt(code, nodes[n].startIndex) + 1,
                   endLine |-> RowAt(code, nodes[n].endIndex) + 1]]
  ELSE [defined |-> FALSE]

\* maybeYieldChunk: the verbatim chunk, or undefined (defined |-> FALSE)
maybeYieldChunk(nodes, n, code, maxChunkSize, root) ==
  IF (root \/ InCollapsedNodeConstructors(nodes[n].type))
     /\ countTokens(TextOf(nodes, n, code)) < maxChunkSize
  THEN [defined |-> TRUE,
        chunk |-> [content |-> TextOf(nodes, n, code),
                   startLine |-> RowAt(code, nodes[n].startIndex) + 1,
                   endLine |-> RowAt(code, nodes[n].endIndex) + 1]]
  ELSE [defined |-> FALSE]

\* traverseNode(node, callback): the nodes the callback sees, in call order
RECURSIVE traverseNode(_, _)
RECURSIVE traverseAll(_, _)
traverseNode(nodes, n) == <<n>> \o traverseAll(nodes, nodes[n].children)
traverseAll(nodes, ch) ==
  IF Len(ch) = 0 THEN <<>>
  ELSE traverseNode(nodes, ch[1]) \o traverseAll(nodes, Tail(ch))

\* x?.text of a child looked up by field name
FieldText(nodes, n, code, name) ==
  LET c == childForFieldName(nodes, n, name)
  IN  IF c = NoNode THEN Undefined ELSE TextOf(nodes, c, code)

\* extractArguments(argumentsNode): the texts of the children that are not ','
RECURSIVE TextsOf(_, _, _)
TextsOf(nodes, code, seq) ==
  IF Len(seq) = 0 THEN <<>>
  ELSE <<TextOf(nodes, seq[1], code)>> \o TextsOf(nodes, code, Tail(seq))

extractArguments(nodes, argumentsNode, code) ==
  IF argumentsNode = NoNode THEN <<>>
  ELSE TextsOf(nodes, code,
               SelectSeq(nodes[argumentsNode].children, LAMBDA m : nodes[m].type # ","))

\* the record the traverseNode callback of extractFunctionBody pushes for a node
BodyEntry(nodes, m, code) ==
  LET line == RowAt(code, nodes[m].startIndex) + 1
  IN  IF nodes[m].type = "declaration"
      THEN [type |-> FieldText(nodes, m, code, "type"),
            name |-> FieldText(nodes, m, code, "declarator"),
            line |-> line]
      ELSE IF nodes[m].type = "call_expression"
      THEN [name |-> FieldText(nodes, m, code, "function"),
            arguments |-> extractArguments(nodes,
                            childForFieldName(nodes, m, "arguments"), code),
            line |-> line]
      ELSE [type |-> <<nodes[m].type>>,
            condition |-> FieldText(nodes, m, code, "condition"),
            line |-> line]

RECURSIVE BodyEntries(_, _, _)
BodyEntries(nodes, code, seq) ==
  IF Len(seq) = 0 THEN <<>>
  ELSE <<BodyEntry(nodes, seq[1], code)>> \o BodyEntries(nodes, code, Tail(seq))

\* extractFunctionBody(bodyNode, code): '' without a body, else the three lists
extractFunctionBody(nodes, bodyNode, code) ==
  IF bodyNode = NoNode THEN <<>>
  ELSE
    LET seen == traverseNode(nodes, bodyNode)
        of(types) ==
          BodyEntries(nodes, code, SelectSeq(seen, LAMBDA m : nodes[m].type \in types))
    IN  <<[variables |-> of({"declaration"}),
           controlStructures |-> of({"if_statement", "for_statement",
                                     "while_statement", "do_statement"}),
           functionCalls |-> of({"call_expression"})]>>

\* extractParameters(parametersNode)
RECURSIVE ParameterEntries(_, _, _)
ParameterEntries(nodes, code, seq) ==
  IF Len(seq) = 0 THEN <<>>
  ELSE <<[type |-> FieldText(nodes, seq[1], code, "type"),
          name |-> FieldText(nodes, seq[1], code, "declarator")]>>
         \o ParameterEntries(nodes, code, Tail(seq))

extractParameters(nodes, parametersNode, code) ==
  IF parametersNode = NoNode THEN <<>>
  ELSE ParameterEntries(nodes, code,
                        SelectSeq(nodes[parametersNode].children,
                                  LAMBDA m : nodes[m].type = "parameter_declaration"))

\* the details every node gets (lines 229-234) and those the function_definition
\* case adds (lines 238-241)
BaseDetails(nodes, n, code) ==
  [type |-> nodes[n].type,
   startLine |-> RowAt(code, nodes[n].startIndex) + 1,
   endLine |-> RowAt(code, nodes[n].endIndex) + 1,
   content |-> TextOf(nodes, n, code)]

FunctionDetails(nodes, n, code) ==
  [name |-> FieldText(nodes, n, code, "declarator"),
   returnType |-> FieldText(nodes, n, code, "type"),
   parameters |-> extractParameters(nodes, childForFieldName(nodes, n, "parameters"), code),
   body |-> extractFunctionBody(nodes, childForFieldName(nodes, n, "body"), code)]

\* mutant: the details also carry globalContext.currentFunction, as the
\* records of updateGlobalContext do
extractNodeDetailsWithContext(nodes, n, code) ==
  Spread(IF nodes[n].type = "function_definition"
         THEN Spread(BaseDetails(nodes, n, code), FunctionDetails(nodes, n, code))
         ELSE BaseDetails(nodes, n, code),
         [function |-> globalContext.currentFunction])

\* extractNodeDetails(node, code): the details record of a node.  Chunks are
\* made of the root and of nodes with a collapsedNodeConstructors entry only, so
\* of the switch only the function_definition case adds fields to a chunk.
extractNodeDetails(nodes, n, code) ==
  IF nodes[n].type = "function_definition"
  THEN Spread(BaseDetails(nodes, n, code), FunctionDetails(nodes, n, code))
  ELSE BaseDetails(nodes, n, code)

\* the write extractNodeDetails makes to globalContext (line 242)
ContextAfterDetails(nodes, n, code, ctx) ==
  IF nodes[n].type = "function_definition"
  THEN [ctx EXCEPT !.currentFunction = FieldText(nodes, n, code, "declarator")]
  ELSE ctx

\* ------------------------------------------------------------- input files
\* The files the generator is run on: a syntax tree and its text, laid out from
\* a small description.  Nodes are numbered in preorder; children lists follow
\* from the parent links.
MkNode(type, s, e, parent, field) ==
  [type |-> type, startIndex |-> s, endIndex |-> e, parent |-> parent,
   field |-> field, children |-> <<>>]

\* the function-like shapes: the node's grammar tag and what its last child is
FnKinds ==
  {[type |-> "function_definition", body |-> "compound_statement"],
   [type |-> "function_item", body |-> "block"],
   [type |-> "method_declaration", body |-> ";"],
   [type |-> "method_definition", body |-> "statement_block"],
   [type |-> "function_declaration", body |-> "none"]}

\* the members laid out inside a container
MemberKinds == {k \in FnKinds : k.body # "none"}

\* the container shapes: grammar tag, tag of the body block, blank lines between
\* members (sep newlines), the members' indentation, and whether the body block
\* ends with a comment that repeats the first member's signature and placeholder
ContainerStyles ==
  {[type |-> "class_definition", block |-> "block", sep |-> 1, indent |-> 1, echo |-> FALSE],
   [type |-> "class_declaration", block |-> "class_body", sep |-> 2, indent |-> 0,
    echo |-> FALSE],
   [type |-> "impl_item", block |-> "declaration_list", sep |-> 2, indent |-> 1,
    echo |-> FALSE],
   [type |-> "class_declaration", block |-> "class_body", sep |-> 1, indent |-> 0,
    echo |-> TRUE]}

NameOf(i) == <<"f", "g", "h", "i", "j", "k">>[i]

BodyText(len) == <<"{">> \o Repeat(<<SP, "a">>, len) \o <<SP, "}">>

FnText(kind, name, len) ==
  IF kind.body = "none" THEN <<name>>
  ELSE IF kind.body = ";" THEN <<name, SP, "x", ";">>
  ELSE <<name, SP>> \o BodyText(len)

\* the nodes of a function-like node starting at offset `start`, the first of
\* them numbered `id`
FnNodes(kind, name, len, start, parent, id) ==
  LET end == start + Len(FnText(kind, name, len))
      fn == MkNode(kind.type, start, end, parent, "")
  IN  IF kind.body = "none" THEN <<fn>>
      ELSE IF kind.body = ";"
      THEN <<fn, MkNode("function_declarator", start, start + 1, id, "declarator"),
             MkNode(";", end - 1, end, id, "")>>
      ELSE <<fn, MkNode("function_declarator", start, start + 1, id, "declarator"),
             MkNode(kind.body, start + 2, end, id, "body")>>

RECURSIVE LayMembers(_, _, _, _, _, _)
LayMembers(kinds, i, st, style, len, blockId) ==
  IF i > Len(kinds) THEN st
  ELSE
    LET pre == (IF i = 1 THEN <<>> ELSE Repeat(<<NL>>, style.sep))
                 \o Repeat(<<SP>>, style.indent)
        start == Len(st.code) + Len(pre)
    IN  LayMembers(kinds, i + 1,
          [code |-> st.code \o pre \o FnText(kinds[i], NameOf(i), len),
           nodes |-> st.nodes
                       \o FnNodes(kinds[i], NameOf(i), len, start, blockId,
                                  Len(st.nodes) + 1)],
          style, len, blockId)

\* children lists from the parent links (siblings in preorder = source order)
RECURSIVE IdsWithParent(_, _, _)
IdsWithParent(nodes, p, i) ==
  IF i > Len(nodes) THEN <<>>
  ELSE (IF nodes[i].parent = p THEN <<i>> ELSE <<>>) \o IdsWithParent(nodes, p, i + 1)

LinkChildren(nodes) ==
  [i \in 1..Len(nodes) |-> [nodes[i] EXCEPT !.children = IdsWithParent(nodes, i, 1)]]

\* a file holding a comment line and one container with the given members:
\*   c
\*   K {
\*    f { a a }
\*    g x;
\*   }
\* and, in an echo style whose first member has a body, the line `f { ... }`
\* as a comment after the last member
ContainerFile(style, kinds, len) ==
  LET head == <<"c", NL, "K", SP, "{", NL>>
      st0 == [code |-> head,
              nodes |-> <<MkNode("translation_unit", 0, 0, NoNode, ""),
                          MkNode("comment", 0, 1, 1, ""),
                          MkNode(style.type, 2, 0, 1, ""),
                          MkNode("identifier", 2, 3, 3, "name"),
                          MkNode(style.block, 4, 0, 3, "body")>>]
      st1 == LayMembers(kinds, 1, st0, style, len, 5)
      echoed == style.echo /\ Len(kinds) > 0 /\ kinds[1].body \in FUNCTION_BLOCK_NODE_TYPES
      echoText == <<NameOf(1), SP>> \o collapsedReplacement([type |-> kinds[1].body])
      pre == Repeat(<<NL>>, style.sep) \o Repeat(<<SP>>, style.indent)
      st2 == IF echoed
             THEN [code |-> st1.code \o pre \o echoText,
                   nodes |-> Append(st1.nodes,
                               MkNode("comment", Len(st1.code) + Len(pre),
                                      Len(st1.code) + Len(pre) + Len(echoText), 5, ""))]
             ELSE st1
      code == st2.code \o (IF Len(kinds) > 0 THEN <<NL>> ELSE <<>>) \o <<"}">>
      nodes == [i \in 1..Len(st2.nodes) |->
                  IF i \in {1, 3, 5}
                  THEN [st2.nodes[i] EXCEPT !.endIndex = Len(code)]
                  ELSE st2.nodes[i]]
  IN  [code |-> code, nodes |-> LinkChildren(nodes)]

\* a file holding a function inside an unclassified node, then a function:
\*   x f { a a }
\*   g { a a }
FunctionsFile(kind1, kind2, len) ==
  LET t1 == FnText(kind1, NameOf(1), len)
      t2 == FnText(kind2, NameOf(2), len)
      code == <<"x", SP>> \o t1 \o <<NL>> \o t2
      n1 == FnNodes(kind1, NameOf(1), len, 2, 2, 3)
      nodes == <<MkNode("translation_unit", 0, Len(code), NoNode, ""),
                 MkNode("linkage_specification", 0, 2 + Len(t1), 1, "")>>
                 \o n1
                 \o FnNodes(kind2, NameOf(2), len, 3 + Len(t1), 1, 3 + Len(n1))
  IN  [code |-> code, nodes |-> LinkChildren(nodes)]

RECURSIVE SeqsUpTo(_, _)
SeqsUpTo(S, n) ==
  IF n = 0 THEN {<<>>}
  ELSE LET shorter == SeqsUpTo(S, n - 1)
       IN  shorter \cup {Append(q, x) : q \in {r \in shorter : Len(r) = n - 1}, x \in S}

InputFiles ==
  {ContainerFile(style, kinds, len) :
     style \in ContainerStyles, kinds \in SeqsUpTo(MemberKinds, MaxMembers), len \in 1..MaxBody}
  \cup
  {FunctionsFile(k1, k2, len) : k1 \in FnKinds, k2 \in FnKinds, len \in 1..MaxBody}

\* ------------------------------------------------------------- chunk generator
RootCall == <<[node |-> 1, root |-> TRUE]>>

Init ==
  /\ \E f \in InputFiles : source = f.code /\ tree = f.nodes
  /\ budget \in 1..MaxBudget
  /\ stack = RootCall
  /\ chunks = <<>>
  /\ origin = <<>>
  /\ visited = <<>>
  /\ status = "running"
  /\ run = 1
  /\ firstRun = [chunks |-> <<>>, status |-> "none"]
  /\ globalContext = [currentFunction |-> Undefined]
  /\ pass = 0 /\ once = <<>> /\ twice = <<>>

\* mutant: the children are walked last to first
RECURSIVE ChildCallsReversed(_)
ChildCallsReversed(ch) ==
  IF Len(ch) = 0 THEN <<>>
  ELSE Append(ChildCallsReversed(Tail(ch)), [node |-> ch[1], root |-> FALSE])

\* for (const child of node.children) yield* getSmartCollapsedChunks(child, ..., false)
RECURSIVE ChildCalls(_)
ChildCalls(ch) ==
  IF Len(ch) = 0 THEN <<>>
  ELSE <<[node |-> ch[1], root |-> FALSE]>> \o ChildCalls(Tail(ch))

\* the call the generator is about to make
Top == Head(stack)
TopFits == maybeYieldChunk(tree, Top.node, source, budget, Top.root)
TopEngine == collapsedNodeConstructors(tree, Top.node, source, budget)

\* mutant: the return after the verbatim chunk is missing, the children follow
YieldVerbatimDescends ==
  /\ status = "running" /\ stack # <<>>
  /\ TopFits.defined
  /\ chunks' = Append(chunks, Spread(TopFits.chunk,
                                     extractNodeDetails(tree, Top.node, source)))
  /\ globalContext' = ContextAfterDetails(tree, Top.node, source, globalContext)
  /\ origin' = Append(origin, [node |-> Top.node, path |-> "verbatim"])
  /\ visited' = Append(visited, Top.node)
  /\ stack' = ChildCalls(tree[Top.node].children) \o Tail(stack)
  /\ UNCHANGED <<input, status, run, firstRun, normVars>>

\* lines 437-444: the node fits; one chunk, no descent
YieldVerbatim ==
  /\ status = "running" /\ stack # <<>>
  /\ TopFits.defined
  /\ chunks' = Append(chunks, Spread(TopFits.chunk,
                                     extractNodeDetails(tree, Top.node, source)))
  /\ globalContext' = ContextAfterDetails(tree, Top.node, source, globalContext)
  /\ origin' = Append(origin, [node |-> Top.node, path |-> "verbatim"])
  /\ visited' = Append(visited, Top.node)
  /\ stack' = Tail(stack)
  /\ UNCHANGED <<input, status, run, firstRun, normVars>>

\* lines 446-461: the node has a constructor and does not fit; its chunk, then
\* the children
YieldCollapsed ==
  /\ status = "running" /\ stack # <<>>
  /\ ~TopFits.defined
  /\ InCollapsedNodeConstructors(tree[Top.node].type)
  /\ ~TopEngine.threw
  /\ chunks' = Append(chunks,
                 Spread([content |-> TopEngine.code,
                         startLine |-> RowAt(source, tree[Top.node].startIndex) + 1,
                         endLine |-> RowAt(source, tree[Top.node].endIndex) + 1],
                        extractNodeDetails(tree, Top.node, source)))
  /\ globalContext' = ContextAfterDetails(tree, Top.node, source, globalContext)
  /\ origin' = Append(origin, [node |-> Top.node, path |-> "collapsed"])
  /\ visited' = Append(visited, Top.node)
  /\ stack' = ChildCalls(tree[Top.node].children) \o Tail(stack)
  /\ UNCHANGED <<input, status, run, firstRun, normVars>>

\* lines 448-452: the constructor throws; the exception leaves the generator
\* and every generator delegating to it
ConstructorThrows ==
  /\ status = "running" /\ stack # <<>>
  /\ ~TopFits.defined
  /\ InCollapsedNodeConstructors(tree[Top.node].type)
  /\ TopEngine.threw
  /\ status' = "threw"
  /\ stack' = <<>>
  /\ visited' = Append(visited, Top.node)
  /\ UNCHANGED <<input, chunks, origin, run, firstRun, globalContext, normVars>>

\* lines 459-461 alone: no chunk for the node, only the descent
Descend ==
  /\ status = "running" /\ stack # <<>>
  /\ ~TopFits.defined
  /\ ~InCollapsedNodeConstructors(tree[Top.node].type)
  /\ visited' = Append(visited, Top.node)
  /\ stack' = ChildCalls(tree[Top.node].children) \o Tail(stack)
  /\ UNCHANGED <<input, chunks, origin, status, run, firstRun, globalContext, normVars>>

\* the root call returns: the for await loop of processFile ends
Return ==
  /\ status = "running" /\ stack = <<>>
  /\ status' = "done"
  /\ UNCHANGED <<input, stack, chunks, origin, visited, run, firstRun, globalContext, normVars>>

\* the generator is invoked again on the same tree, text and budget, in the same
\* process: globalContext is the same object, everything else is fresh
RunAgain ==
  /\ status \in {"done", "threw"} /\ run = 1
  /\ firstRun' = [chunks |-> chunks, status |-> status]
  /\ run' = 2
  /\ stack' = RootCall
  /\ chunks' = <<>>
  /\ origin' = <<>>
  /\ visited' = <<>>
  /\ status' = "running"
  /\ UNCHANGED <<input, globalContext, normVars>>

\* one run of the generator over a file
Next ==
  \/ YieldVerbatim
  \/ YieldCollapsed
  \/ ConstructorThrows
  \/ Descend
  \/ Return

Spec == Init /\ [][Next]_vars

\* a run, then a second one in the same process
NextTwice ==
  \/ YieldVerbatim
  \/ YieldCollapsed
  \/ ConstructorThrows
  \/ Descend
  \/ Return
  \/ RunAgain

SpecTwice == Init /\ [][NextTwice]_vars

\* ------------------------------------------------------------- the blank-line pass alone
\* collapseChildren's lines 123-141 applied to a text of blank (empty or
\* whitespace-only) and non-blank lines, then to its own output
LineKinds == {<<>>, <<SP>>, <<"a">>}
Texts == {JoinLines(lines) : lines \in SeqsUpTo(LineKinds, MaxLines)}

InitNormalize ==
  /\ source \in Texts
  /\ tree = <<>> /\ budget = 1 /\ stack = <<>> /\ chunks = <<>>
  /\ origin = <<>> /\ visited = <<>> /\ status = "done" /\ run = 2
  /\ firstRun = [chunks |-> <<>>, status |-> "none"]
  /\ globalContext = [currentFunction |-> Undefined]
  /\ pass = 0 /\ once = <<>> /\ twice = <<>>

NormalizeOnce ==
  /\ pass = 0
  /\ once' = NormalizeBlankLines(source)
  /\ pass' = 1
  /\ UNCHANGED <<input, stack, chunks, origin, visited, status, run, firstRun,
                 globalContext, twice>>

NormalizeTwice ==
  /\ pass = 1
  /\ twice' = NormalizeBlankLines(once)
  /\ pass' = 2
  /\ UNCHANGED <<input, stack, chunks, origin, visited, status, run, firstRun,
                 globalContext, once>>

NextNormalize ==
  \/ NormalizeOnce
  \/ NormalizeTwice

SpecNormalize == InitNormalize /\ [][NextNormalize]_vars

\* ------------------------------------------------------------- claims
Fits(n) == countTokens(TextOf(tree, n, source)) < budget
IsContainer(n) == tree[n].type \in CLASS_CONSTRUCTOR_TYPES
IsFunctionLike(n) == tree[n].type \in FUNCTION_CONSTRUCTOR_TYPES
Visited == {visited[i] : i \in 1..Len(visited)}
ChunksOf(n) == {i \in 1..Len(origin) : origin[i].node = n}
Subtree(n) == LET seen == traverseNode(tree, n) IN {seen[i] : i \in 1..Len(seen)}
Ended == status \in {"done", "threw"}
\* what the collapsing engine returns for node n
EngineOf(n) == collapsedNodeConstructors(tree, n, source, budget)
StartLine(n) == RowAt(source, tree[n].startIndex) + 1
EndLine(n) == RowAt(source, tree[n].endIndex) + 1

\* C1: every visited Container or FunctionLike node whose text does not fit,
\* and for which the engine returns a rendering, yields exactly one chunk, whose
\* content is that rendering and whose lines are the node's start row + 1 and
\* end row + 1.
C1_CollapsedChunkHoldsRendering ==
  \A n \in Visited :
    (IsContainer(n) \/ IsFunctionLike(n)) /\ ~Fits(n) /\ ~EngineOf(n).threw =>
      /\ Cardinality(ChunksOf(n)) = 1
      /\ \A i \in ChunksOf(n) :
           /\ chunks[i].content = EngineOf(n).code
           /\ chunks[i].startLine = StartLine(n)
           /\ chunks[i].endLine = EndLine(n)

\* C2: every chunk of the fallback path either estimates under the budget or was
\* made with every evictable unit removed; the eviction loop never stops with
\* units left while the estimate equals the budget.
C2_FitOrExhausted ==
  \A i \in 1..Len(chunks) :
    origin[i].path = "collapsed" =>
      LET r == EngineOf(origin[i].node)
      IN  /\ countTokens(chunks[i].content) < budget \/ r.left = 0
          /\ ~(r.left > 0 /\ countTokens(Trim(r.stopCode)) = budget)

\* C10: an oversized FunctionLike node without a body block (no children, or a
\* last child that is no body block) makes constructFunctionDefinitionChunk fail,
\* and no chunk is emitted for the node.
HasBodyBlock(n) ==
  /\ Len(tree[n].children) > 0
  /\ tree[tree[n].children[Len(tree[n].children)]].type \in FUNCTION_BLOCK_NODE_TYPES

C10_BodilessFunctionFails ==
  \A n \in Visited :
    IsFunctionLike(n) /\ ~Fits(n) /\ ~HasBodyBlock(n) =>
      /\ EngineOf(n).threw
      /\ ChunksOf(n) = {}

\* C5: a node emitted verbatim is the only origin of chunks in its subtree; when
\* the root fits, the run yields one chunk: the root's text, from the root's
\* start row + 1 to its end row + 1.
C5_VerbatimEndsBranch ==
  /\ \A i \in 1..Len(origin) :
       origin[i].path = "verbatim" =>
         /\ Fits(origin[i].node)
         /\ \A j \in 1..Len(origin) : origin[j].node \in Subtree(origin[i].node) => j = i
  /\ Fits(1) =>
       /\ Len(chunks) <= 1
       /\ Ended => /\ status = "done"
                   /\ Len(chunks) = 1
                   /\ chunks[1].content = TextOf(tree, 1, source)
                   /\ chunks[1].startLine = StartLine(1)
                   /\ chunks[1].endLine = EndLine(1)
  /\ Ended => \A n \in Visited :
                (n = 1 \/ IsContainer(n) \/ IsFunctionLike(n)) /\ Fits(n) =>
                  /\ Cardinality(ChunksOf(n)) = 1
                  /\ \A d \in Subtree(n) \ {n} : d \notin Visited /\ ChunksOf(d) = {}

\* a run that ended after a container below the root was emitted verbatim
C5_Witness ==
  /\ status = "done"
  /\ \E i \in 1..Len(origin) :
       /\ origin[i].path = "verbatim" /\ origin[i].node # 1
       /\ IsContainer(origin[i].node)
       /\ Cardinality(Subtree(origin[i].node)) > 4

\* C4: the chunks come in the preorder, left-to-right order of the nodes they
\* are made of.
PreorderPosition(n) ==
  LET seen == traverseNode(tree, 1)
  IN  CHOOSE k \in 1..Len(seen) : seen[k] = n

C4_PreorderChunks ==
  \A i, j \in 1..Len(origin) :
    i < j => PreorderPosition(origin[i].node) < PreorderPosition(origin[j].node)

\* an oversized container's chunk followed by the chunks of two of its members
C4_Witness ==
  \E i, j, k \in 1..Len(origin) :
    /\ i < j /\ j < k
    /\ origin[i].path = "collapsed" /\ IsContainer(origin[i].node)
    /\ origin[j].node \in Subtree(origin[i].node)
    /\ origin[k].node \in Subtree(origin[i].node)
    /\ origin[k].node \notin Subtree(origin[j].node)

\* C7: a second run on the same tree, text and budget yields the chunks of the
\* first, field for field, and ends the same way.
C7_SecondRunRepeatsFirst ==
  run = 2 =>
    /\ Len(chunks) <= Len(firstRun.chunks)
    /\ \A i \in 1..Len(chunks) : chunks[i] = firstRun.chunks[i]
    /\ Ended => status = firstRun.status /\ Len(chunks) = Len(firstRun.chunks)

\* a finished second run whose first run wrote globalContext.currentFunction
C7_Witness ==
  /\ run = 2 /\ status = "done"
  /\ globalContext.currentFunction # Undefined
  /\ Len(chunks) >= 2
  /\ \E i \in 1..Len(chunks) : chunks[i].type = "function_definition"

\* C8 as stated: every visited unclassified node under budget yields no chunk,
\* and all its children are visited.
UnclassifiedFits(n) == ~InCollapsedNodeConstructors(tree[n].type) /\ Fits(n)
ChildrenOf(n) == {tree[n].children[k] : k \in 1..Len(tree[n].children)}

C8_Original ==
  \A n \in Visited :
    UnclassifiedFits(n) =>
      /\ ChunksOf(n) = {}
      /\ Ended => ChildrenOf(n) \subseteq Visited

\* C8 amended: every visited unclassified node other than the root that is under
\* budget yields no chunk, all its children are visited, and each child that is a
\* Container or FunctionLike node yields its chunk.
C8_UnclassifiedBelowRoot ==
  \A n \in Visited :
    UnclassifiedFits(n) /\ n # 1 =>
      /\ ChunksOf(n) = {}
      /\ Ended => /\ ChildrenOf(n) \subseteq Visited
                  /\ \A c \in ChildrenOf(n) :
                       InCollapsedNodeConstructors(tree[c].type) =>
                         Cardinality(ChunksOf(c)) = 1

\* a finished run in which an unclassified node under budget, below an
\* oversized root, had a function child that produced a chunk
C8_Witness ==
  /\ status = "done"
  /\ \E n \in Visited :
       /\ n # 1 /\ UnclassifiedFits(n)
       /\ \E c \in ChildrenOf(n) : IsFunctionLike(c) /\ ChunksOf(c) # {}

\* the collapsible members of container n: the direct children of its body
\* block that are function-like (collapseTypes), in source order
ClassBlock(n) == firstChild(tree, n, CLASS_BLOCK_NODE_TYPES)
CollapsibleMembers(n) ==
  IF ClassBlock(n) = NoNode THEN <<>>
  ELSE SelectSeq(tree[ClassBlock(n)].children,
                 LAMBDA c : tree[c].type \in FUNCTION_DECLARATION_NODE_TYPES)
MemberBody(m) == firstChild(tree, m, FUNCTION_BLOCK_NODE_TYPES)
MembersWithBody(n) == SelectSeq(CollapsibleMembers(n), LAMBDA m : MemberBody(m) # NoNode)

\* a member's text in the rendering: its signature and placeholder when it has a
\* body block, its own text otherwise
MemberText(m) ==
  IF MemberBody(m) = NoNode THEN TextOf(tree, m, source)
  ELSE Slice(source, tree[m].startIndex, tree[MemberBody(m)].startIndex)
         \o collapsedReplacement(tree[MemberBody(m)])

\* how much shorter the text before member m became when the bodies of the
\* members before it were replaced
RECURSIVE ShrinkBefore(_, _)
ShrinkBefore(members, m) ==
  IF Len(members) = 0 \/ tree[members[1]].startIndex >= tree[m].startIndex THEN 0
  ELSE (tree[MemberBody(members[1])].endIndex - tree[MemberBody(members[1])].startIndex)
         - Len(collapsedReplacement(tree[MemberBody(members[1])]))
         + ShrinkBefore(Tail(members), m)

\* the offset of member m in the collapsed text of container n
OffsetInCollapsed(n, m) ==
  tree[m].startIndex - tree[n].startIndex - ShrinkBefore(MembersWithBody(n), m)

\* members M[1..Len(M)] of container n, k evictions: the evicted are M[n], M[n-1],
\* ..., each cut out at its own place, and M[1..n-k] are still in the result
EvictsLastFirst(n, M) ==
  LET r == EngineOf(n)
      k == Len(r.evicted)
  IN  k >= 1 =>
        /\ k <= Len(M)
        /\ \A j \in 1..k :
             /\ r.members[r.evicted[j].unit] = M[Len(M) - j + 1]
             /\ r.evicted[j].index = OffsetInCollapsed(n, M[Len(M) - j + 1])
             /\ LastIndexOf(r.code, MemberText(M[Len(M) - j + 1])) = -1
        /\ \A i \in 1..(Len(M) - k) : LastIndexOf(r.code, MemberText(M[i])) >= 0

CollapsedContainers ==
  {origin[i].node : i \in {j \in 1..Len(origin) :
                             origin[j].path = "collapsed" /\ IsContainer(origin[j].node)}}

\* the node whose collapsed chunk was yielded by the last visit, if any
JustCollapsed ==
  IF /\ origin # <<>> /\ visited # <<>>
     /\ origin[Len(origin)].path = "collapsed"
     /\ visited[Len(visited)] = origin[Len(origin)].node
  THEN {origin[Len(origin)].node} ELSE {}
JustCollapsedContainers == {n \in JustCollapsed : IsContainer(n)}

\* C3 as stated: with M1..Mn all the direct function-like members of the body
\* block, k evictions remove exactly Mn, ..., M(n-k+1), in that order, and the
\* text of M1..M(n-k) stays.
C3_Original ==
  \A n \in JustCollapsedContainers : EvictsLastFirst(n, CollapsibleMembers(n))

\* the collapsed text of container n with the last j of the members M cut out,
\* each at its own place
RECURSIVE CutLast(_, _, _, _)
CutLast(text, n, M, j) ==
  IF j = 0 THEN text
  ELSE LET m == M[Len(M)]
           off == OffsetInCollapsed(n, m)
       IN  CutLast(Slice(text, 0, off) \o SliceFrom(text, off + Len(MemberText(m))),
                   n, SubSeq(M, 1, Len(M) - 1), j - 1)

Occurrences(text, sub) ==
  Cardinality({i \in 0..(Len(text) - Len(sub)) : SubSeq(text, i + 1, i + Len(sub)) = sub})

\* each of the last k members' collapsed text occurs once in the working copy at
\* the time the member is evicted
OnceWhenEvicted(n, M, k) ==
  \A j \in 1..k :
    Occurrences(CutLast(EngineOf(n).collapsedText, n, M, j - 1),
                MemberText(M[Len(M) - j + 1])) = 1

\* C3 amended: with M1..Mn the direct function-like members that have a body
\* block, k evictions drop the units of Mn, ..., M(n-k+1), in that order; the
\* text of M1..M(n-k) and of every member without a body block stays; and when
\* each evicted member's collapsed text occurs once in the working copy, the
\* text cut out is the member's own and is gone from the result.
C3_EvictionOrder ==
  \A n \in JustCollapsedContainers :
    LET M == MembersWithBody(n)
        r == EngineOf(n)
        k == Len(r.evicted)
    IN  /\ k <= Len(M)
        /\ \A j \in 1..k : r.members[r.evicted[j].unit] = M[Len(M) - j + 1]
        /\ \A i \in 1..(Len(M) - k) :
             /\ LastIndexOf(r.stopCode, MemberText(M[i])) >= 0
             /\ LastIndexOf(r.code, MemberText(M[i])) >= 0
        /\ \A i \in 1..Len(CollapsibleMembers(n)) :
             MemberBody(CollapsibleMembers(n)[i]) = NoNode =>
               LastIndexOf(r.code, MemberText(CollapsibleMembers(n)[i])) >= 0
        /\ OnceWhenEvicted(n, M, k) =>
             /\ r.stopCode = CutLast(r.collapsedText, n, M, k)
             /\ \A j \in 1..k :
                  /\ r.evicted[j].index = OffsetInCollapsed(n, M[Len(M) - j + 1])
                  /\ LastIndexOf(r.code, MemberText(M[Len(M) - j + 1])) = -1

\* a container with two members with a body whose budget forced one eviction
C3_Witness ==
  \E n \in CollapsedContainers :
    /\ Len(MembersWithBody(n)) >= 2
    /\ Len(EngineOf(n).evicted) = 1
    /\ OnceWhenEvicted(n, MembersWithBody(n), 1)

\* the placeholders as the code's branch gives them, and as C6 states them
BraceTypes == {"statement_block", "compound_statement"}
PlaceholderByBraceTypes(type) ==
  IF type \in BraceTypes THEN <<"{", " ", ".", ".", ".", " ", "}">> ELSE <<".", ".", ".">>
PlaceholderByBlockTypes(type) ==
  IF type \in FUNCTION_BLOCK_NODE_TYPES
  THEN <<"{", " ", ".", ".", ".", " ", "}">> ELSE <<".", ".", ".">>

EndsWith(text, tail) ==
  Len(text) >= Len(tail) /\ SubSeq(text, Len(text) - Len(tail) + 1, Len(text)) = tail

LastChild(n) == tree[n].children[Len(tree[n].children)]

\* the rendering just made replaced each body by P(the body's type): the
\* function's last child in constructFunctionDefinitionChunk, each member's body
\* block in collapseChildren
PlaceholdersAre(P(_)) ==
  \A n \in JustCollapsed :
      LET r == EngineOf(n)
      IN  /\ IsFunctionLike(n) =>
               EndsWith(r.code,
                        Slice(source, tree[n].startIndex, tree[LastChild(n)].startIndex)
                          \o P(tree[LastChild(n)].type))
          /\ IsContainer(n) =>
               \A u \in 1..Len(r.units) :
                 LET m == r.members[u]
                     text == Slice(source, tree[m].startIndex, tree[MemberBody(m)].startIndex)
                               \o P(tree[MemberBody(m)].type)
                 IN  /\ r.units[u] = text
                     /\ Slice(r.collapsedText, OffsetInCollapsed(n, m),
                              OffsetInCollapsed(n, m) + Len(text)) = text

\* C6 as stated: a body of any type of FUNCTION_BLOCK_NODE_TYPES (block,
\* statement_block, compound_statement) is replaced with "{ ... }", any other
\* with "...".
C6_Original == PlaceholdersAre(PlaceholderByBlockTypes)

\* C6 amended: a body of type statement_block or compound_statement is replaced
\* with "{ ... }"; a body of any other type, block included, with "...".
C6_Placeholders == PlaceholdersAre(PlaceholderByBraceTypes)

\* a run that collapsed a function whose body is a block and a container with a
\* member whose body is a compound_statement
C6_Witness ==
  /\ \E i \in 1..Len(origin) :
       /\ origin[i].path = "collapsed" /\ IsFunctionLike(origin[i].node)
       /\ tree[LastChild(origin[i].node)].type = "block"
  /\ \E n \in CollapsedContainers :
       \E u \in 1..Len(EngineOf(n).members) :
         tree[MemberBody(EngineOf(n).members[u])].type = "compound_statement"

\* C9: the blank-line pass applied to its own output returns it unchanged.
C9_NormalizeIdempotent == pass = 2 => twice = once

\* a text with leading blank lines that the first pass shortened
C9_Witness ==
  /\ pass = 2
  /\ Len(source) > 0 /\ source[1] = NL
  /\ Len(once) < Len(source)

====
